---- MODULE Spec2Model ----
(***************************************************************************)
(* Model of the vulcano application shell (vulcano/app/classes.py):        *)
(* the per-name singleton registry VulcanoApp.__instances__, the shell     *)
(* object _VulcanoApp (command registry, shared context, do_repl flag),    *)
(* and its two run modes: _exec_from_args (batch, driven by sys.argv) and  *)
(* _exec_from_repl (interactive, driven by lines read at the prompt).      *)
(* The suggestion heuristic did_you_mean is modelled with difflib's        *)
(* SequenceMatcher ratio on the characters of the names.                   *)
(*                                                                         *)
(* Text is modelled as a sequence of tokens.  A token is one whitespace    *)
(* free fragment of a command line:                                        *)
(*    Word(s)      the fragment  s                                         *)
(*    Kw(k, s)     the fragment  k=s                                       *)
(*    Ref(k)       the fragment  {k}       (a str.format field)            *)
(*    KwRef(k, r)  the fragment  k={r}                                     *)
(*    BadQuote     a fragment opening a quote that is never closed         *)
(*    Blank        a run of whitespace beyond the single separators        *)
(* Python values are records [ty, s]: None, or a str with its text.        *)
(***************************************************************************)
EXTENDS Integers, Sequences, FiniteSets, TLC

(***************************************************************************)
(* Bounds of the exploration.                                              *)
(***************************************************************************)
MaxHeap == 3       \* shell objects ever built
MaxPrompts == 3    \* reads at the interactive prompt per process
MaxChain == 2      \* chained commands on the process command line
MaxKnown == 2      \* known names handed to did_you_mean

(***************************************************************************)
(* Python values.                                                          *)
(***************************************************************************)
NoneV == [ty |-> "NoneType", s |-> ""]
StrV(x) == [ty |-> "str", s |-> x]
\* no value at all: nothing was returned (the call raised or never happened)
Nothing == [ty |-> "nothing", s |-> ""]

\* str(v), as "{}".format(v) renders a value
Str(v) == IF v.ty = "NoneType" THEN "None" ELSE v.s

\* bool(v)
Truthy(v) == v.ty = "str" /\ v.s # ""

(***************************************************************************)
(* Tokens of a command line.                                               *)
(***************************************************************************)
Word(x) == [kind |-> "word", key |-> "", val |-> x]
Kw(k, x) == [kind |-> "kw", key |-> k, val |-> x]
Ref(k) == [kind |-> "ref", key |-> k, val |-> ""]
KwRef(k, r) == [kind |-> "kwref", key |-> k, val |-> r]
BadQuote == [kind |-> "quote", key |-> "", val |-> "\"Sam"]
Blank == [kind |-> "blank", key |-> "", val |-> " "]

\* the text of a format field naming key k
Braces(k) == "{" \o k \o "}"

\* variant: whitespace is kept as a fragment
StrSplitKeepsBlanks(line) ==
    line

\* str.split(): the whitespace free fragments of a line, in order
StrSplit(line) == SelectSeq(line, LAMBDA t : t.kind # "blank")

(***************************************************************************)
(* Interpolation of the argument text against the shared context:          *)
(*     try: arguments = arguments.format over self.context                 *)
(*     except KeyError: pass                                               *)
(* str.format resolves every field or raises KeyError for the first field  *)
(* whose key is missing; the assignment then never happens and the text    *)
(* stays as typed.                                                         *)
(***************************************************************************)
\* the context keys the fields of a text name
FieldKeys(arguments) ==
    {arguments[i].key : i \in {j \in DOMAIN arguments : arguments[j].kind = "ref"}}
        \cup {arguments[i].val : i \in {j \in DOMAIN arguments : arguments[j].kind = "kwref"}}

\* one fragment with its field replaced by the value's text
FormatToken(t, ctx) ==
    CASE t.kind = "ref" -> Word(Str(ctx[t.key]))
      [] t.kind = "kwref" -> Kw(t.key, Str(ctx[t.val]))
      [] OTHER -> t

\* arguments.format over ctx when every key is present
StrFormat(arguments, ctx) ==
    [i \in DOMAIN arguments |-> FormatToken(arguments[i], ctx)]

\* variant: interpolation is skipped, the text is handed on as typed
InterpolateNever(arguments, ctx) ==
    arguments

\* variant: every field whose key is present is resolved, the others are left
InterpolatePartial(arguments, ctx) ==
    [i \in DOMAIN arguments |->
        IF (arguments[i].kind = "ref" /\ arguments[i].key \in DOMAIN ctx)
              \/ (arguments[i].kind = "kwref" /\ arguments[i].val \in DOMAIN ctx)
        THEN FormatToken(arguments[i], ctx)
        ELSE arguments[i]]

\* the try/except around format: the text handed to inline_parser
Interpolate(arguments, ctx) ==
    IF FieldKeys(arguments) \subseteq DOMAIN ctx
    THEN StrFormat(arguments, ctx)
    ELSE arguments

(***************************************************************************)
(* inline_parser: the argument text to (args, kwargs).  A fragment k=v is  *)
(* a keyword argument, any other fragment a positional one, in order; an   *)
(* unterminated quote fails with a parse error.                            *)
(***************************************************************************)
\* the text of a fragment that reaches the parser uninterpolated
RawText(t) ==
    CASE t.kind = "ref" -> Braces(t.key)
      [] t.kind = "kwref" -> Braces(t.val)
      [] OTHER -> t.val

IsKeyword(t) == t.kind \in {"kw", "kwref"}

WellQuoted(text) == \A i \in DOMAIN text : text[i].kind # "quote"

PositionalOf(text) ==
    LET pos == SelectSeq(text, LAMBDA t : ~IsKeyword(t))
    IN  [i \in DOMAIN pos |-> StrV(RawText(pos[i]))]

KeywordsOf(text) ==
    LET kws == SelectSeq(text, LAMBDA t : IsKeyword(t))
        keys == {kws[i].key : i \in DOMAIN kws}
        lastOf(k) == CHOOSE i \in DOMAIN kws :
                        /\ kws[i].key = k
                        /\ \A j \in DOMAIN kws : kws[j].key = k => j <= i
    IN  [k \in keys |-> StrV(RawText(kws[lastOf(k)]))]

inline_parser(text) ==
    IF WellQuoted(text)
    THEN [exc |-> "none", args |-> PositionalOf(text), kwargs |-> KeywordsOf(text)]
    ELSE [exc |-> "ParseError", args |-> <<>>, kwargs |-> <<>>]

(***************************************************************************)
(* split_list_by_arg: the process arguments cut at every standalone        *)
(* separator token into the chained commands, each the fragments of one    *)
(* command joined by single spaces.                                        *)
(***************************************************************************)
FirstIndexOf(lst, separator) ==
    LET hits == {i \in DOMAIN lst : lst[i] = separator}
    IN  IF hits = {} THEN 0 ELSE CHOOSE i \in hits : \A j \in hits : i <= j

RECURSIVE split_list_by_arg(_, _)
split_list_by_arg(lst, separator) ==
    IF lst = <<>>
    THEN <<>>
    ELSE LET i == FirstIndexOf(lst, separator)
         IN  IF i = 0
             THEN <<lst>>
             ELSE <<SubSeq(lst, 1, i - 1)>>
                      \o split_list_by_arg(SubSeq(lst, i + 1, Len(lst)), separator)

(***************************************************************************)
(* The shared context, a dict from keys to values.                         *)
(***************************************************************************)
SetKey(ctx, k, v) ==
    [x \in (DOMAIN ctx) \cup {k} |-> IF x = k THEN v ELSE ctx[x]]

(***************************************************************************)
(* The callables of the host program (examples/simple_example.py), echo    *)
(* for a callable that returns its argument, and the two built-ins.        *)
(* Calling a                                                               *)
(* callable binds the arguments to its parameters as Python does (a call   *)
(* that does not fit the signature raises TypeError) and runs its body.    *)
(***************************************************************************)
Params(f) ==
    CASE f = "salute_method_here" -> <<"name", "title">>
      [] f = "i_am" -> <<"name">>
      [] f = "bye" -> <<"name">>
      [] f = "echo" -> <<"value">>
      [] OTHER -> <<>>

Required(f) ==
    CASE f = "salute_method_here" -> {"name"}
      [] f = "i_am" -> {"name"}
      [] f = "echo" -> {"value"}
      [] OTHER -> {}

Binds(f, args, kwargs) ==
    LET params == Params(f)
    IN  /\ Len(args) <= Len(params)
        /\ \A k \in DOMAIN kwargs : \E i \in DOMAIN params : params[i] = k
        /\ \A i \in DOMAIN args : params[i] \notin DOMAIN kwargs
        /\ \A r \in Required(f) :
              \/ r \in DOMAIN kwargs
              \/ \E i \in DOMAIN args : params[i] = r

\* the value bound to the first parameter of f, Nothing when it takes its default
FirstArg(f, args, kwargs) ==
    IF Len(args) >= 1
    THEN args[1]
    ELSE IF Params(f)[1] \in DOMAIN kwargs THEN kwargs[Params(f)[1]] ELSE Nothing

\* builtin.exit(app): the command that ends the interactive loop
builtin_exit(ctx) ==
    [exc |-> "none", ret |-> NoneV, context |-> ctx, stop |-> TRUE]

\* builtin.help(app): the command that lists the visible commands
builtin_help(ctx) ==
    [exc |-> "none", ret |-> NoneV, context |-> ctx, stop |-> FALSE]

\* the body of f, its arguments bound: [exc, ret, context, stop],
\* stop telling that the body cleared do_repl
Body(f, first, ctx) ==
    CASE f = "i_am" ->
            [exc |-> "none", ret |-> NoneV, context |-> SetKey(ctx, "name", first),
             stop |-> FALSE]
      [] f = "whoami" ->
            IF "name" \in DOMAIN ctx
            THEN [exc |-> "none", ret |-> NoneV, context |-> ctx, stop |-> FALSE]
            ELSE [exc |-> "KeyError", ret |-> Nothing, context |-> ctx, stop |-> FALSE]
      [] f = "echo" ->
            [exc |-> "none", ret |-> first, context |-> ctx, stop |-> FALSE]
      [] f = "exit" -> builtin_exit(ctx)
      [] f = "help" -> builtin_help(ctx)
      [] OTHER ->
            [exc |-> "none", ret |-> NoneV, context |-> ctx, stop |-> FALSE]

\* f called with args and kwargs against the context ctx
Call(f, args, kwargs, ctx) ==
    IF Binds(f, args, kwargs)
    THEN Body(f, IF Params(f) = <<>> THEN Nothing ELSE FirstArg(f, args, kwargs), ctx)
    ELSE [exc |-> "TypeError", ret |-> Nothing, context |-> ctx, stop |-> FALSE]

(***************************************************************************)
(* The command registry (Magma): an ordered mapping from name to command.  *)
(***************************************************************************)
IndexOfName(manager, name) ==
    LET hits == {i \in DOMAIN manager : manager[i].name = name}
    IN  IF hits = {} THEN 0 ELSE CHOOSE i \in hits : TRUE

\* register_command: a new name is appended, a known one overwritten
register_command(manager, func, name, show_if) ==
    LET entry == [name |-> name, func |-> func, show_if |-> show_if]
        i == IndexOfName(manager, name)
    IN  IF i = 0 THEN Append(manager, entry) ELSE [manager EXCEPT ![i] = entry]

command_names(manager) == [i \in DOMAIN manager |-> manager[i].name]

\* the command registered under name, func "none" when there is none
Lookup(manager, name) ==
    IF \E i \in DOMAIN manager : manager[i].name = name
    THEN manager[IndexOfName(manager, name)]
    ELSE [name |-> name, func |-> "none", show_if |-> "always"]

\* Magma.run: exact lookup, then the call; an unknown name raises
\* CommandNotFound, and whatever the callable raises passes through
manager_run(manager, name, args, kwargs, ctx) ==
    IF Lookup(manager, name).func = "none"
    THEN [exc |-> "CommandNotFound", ret |-> Nothing, context |-> ctx,
          stop |-> FALSE, func |-> "none"]
    ELSE Call(Lookup(manager, name).func, args, kwargs, ctx)
            @@ [func |-> Lookup(manager, name).func]

(***************************************************************************)
(* did_you_mean(command, possible_commands), the default of run()'s        *)
(* suggestions parameter.  Names are compared as character sequences by    *)
(* difflib.SequenceMatcher(None, a, b).ratio(), which is 2*M/T: T the      *)
(* characters of both names, M the characters in matching blocks, found by *)
(* taking the longest block the two have in common (the earliest in a,     *)
(* then the earliest in b, among the longest) and then doing the same to   *)
(* the left and to the right of it.  A ratio is kept as the fraction       *)
(* [num, den] and two ratios are compared by cross multiplication.         *)
(***************************************************************************)
Chars(name) ==
    CASE name = "hi" -> <<"h", "i">>
      [] name = "ih" -> <<"i", "h">>
      [] name = "i_am" -> <<"i", "_", "a", "m">>
      [] name = "whoami" -> <<"w", "h", "o", "a", "m", "i">>
      [] name = "echo" -> <<"e", "c", "h", "o">>
      [] name = "exit" -> <<"e", "x", "i", "t">>
      [] name = "help" -> <<"h", "e", "l", "p">>
      [] name = "nope" -> <<"n", "o", "p", "e">>
      [] name = "ehit" -> <<"e", "h", "i", "t">>
      [] name = "bye" -> <<"b", "y", "e">>
      [] name = "zz" -> <<"z", "z">>
      [] name = "and" -> <<"a", "n", "d">>
      [] name = " " -> <<" ">>
      [] OTHER -> <<>>

\* the blocks <<i, j, k>> with a[i .. i+k-1] = b[j .. j+k-1] inside the two windows
Blocks(a, b, alo, ahi, blo, bhi) ==
    {t \in (alo..ahi) \X (blo..bhi) \X (1..Len(a)) :
        /\ t[1] + t[3] - 1 <= ahi
        /\ t[2] + t[3] - 1 <= bhi
        /\ \A d \in 0..(t[3] - 1) : a[t[1] + d] = b[t[2] + d]}

\* find_longest_match: the longest block, the earliest in a, then in b
LongestOf(blocks) ==
    CHOOSE t \in blocks : \A u \in blocks :
        \/ t[3] > u[3]
        \/ t[3] = u[3] /\ t[1] < u[1]
        \/ t[3] = u[3] /\ t[1] = u[1] /\ t[2] <= u[2]

\* get_matching_blocks: the characters matched in the two windows
RECURSIVE MatchCount(_, _, _, _, _, _)
MatchAround(a, b, alo, ahi, blo, bhi, t) ==
    t[3] + MatchCount(a, b, alo, t[1] - 1, blo, t[2] - 1)
         + MatchCount(a, b, t[1] + t[3], ahi, t[2] + t[3], bhi)

MatchCount(a, b, alo, ahi, blo, bhi) ==
    IF alo > ahi \/ blo > bhi \/ Blocks(a, b, alo, ahi, blo, bhi) = {}
    THEN 0
    ELSE MatchAround(a, b, alo, ahi, blo, bhi,
                     LongestOf(Blocks(a, b, alo, ahi, blo, bhi)))

\* SequenceMatcher(None, a, b).ratio()
SequenceMatcherRatio(a, b) ==
    IF Len(a) + Len(b) = 0
    THEN [num |-> 1, den |-> 1]
    ELSE [num |-> 2 * MatchCount(a, b, 1, Len(a), 1, Len(b)), den |-> Len(a) + Len(b)]

\* the names the model compares, and the ratio of each pair of them
ComparedNames ==
    {"hi", "ih", "i_am", "whoami", "echo", "exit", "help", "nope", "ehit", "bye", "zz"}

RatioTable ==
    [a \in ComparedNames |->
        [b \in ComparedNames |-> SequenceMatcherRatio(Chars(a), Chars(b))]]

Ratio(command, possible_command) ==
    IF command \in ComparedNames /\ possible_command \in ComparedNames
    THEN RatioTable[command][possible_command]
    ELSE SequenceMatcherRatio(Chars(command), Chars(possible_command))

\* r1 > r2
Greater(r1, r2) == r1.num * r2.den > r2.num * r1.den

\* variant: a candidate as good as the best so far replaces it
RECURSIVE ScanLastWins(_, _, _, _)
ScanLastWins(command, possible_commands, ratio, suggested_command) ==
    IF possible_commands = <<>>
    THEN suggested_command
    ELSE IF ~Greater(ratio, Ratio(command, Head(possible_commands)))
         THEN ScanLastWins(command, Tail(possible_commands),
                           Ratio(command, Head(possible_commands)),
                           StrV(Head(possible_commands)))
         ELSE ScanLastWins(command, Tail(possible_commands), ratio, suggested_command)

did_you_mean_last_wins(command, possible_commands) ==
    ScanLastWins(command, possible_commands, [num |-> 0, den |-> 1], NoneV)

\* the for loop, ratio and suggested_command being its two locals
RECURSIVE Scan(_, _, _, _)
Scan(command, possible_commands, ratio, suggested_command) ==
    IF possible_commands = <<>>
    THEN suggested_command
    ELSE IF Greater(Ratio(command, Head(possible_commands)), ratio)
         THEN Scan(command, Tail(possible_commands),
                   Ratio(command, Head(possible_commands)),
                   StrV(Head(possible_commands)))
         ELSE Scan(command, Tail(possible_commands), ratio, suggested_command)

\* None or the suggested name
did_you_mean(command, possible_commands) ==
    Scan(command, possible_commands, [num |-> 0, den |-> 1], NoneV)

(***************************************************************************)
(* What the shell prints.                                                  *)
(***************************************************************************)
Msg(kind, name, text) == [msg |-> kind, name |-> name, text |-> text]

(***************************************************************************)
(* _VulcanoApp.__init__: a shell with an empty registry, an empty context  *)
(* and no suggestion heuristic; do_repl is first set by _exec_from_repl.   *)
(***************************************************************************)
NewApp(app_name) ==
    [app_name |-> app_name, manager |-> <<>>, context |-> <<>>,
     print_result |-> TRUE, suggestions |-> "None", do_repl |-> "unset"]

(***************************************************************************)
(* VulcanoApp.__new__(app_name) on the registry instances (name -> object  *)
(* id) and the heap of shell objects: [instances, heap, ret].              *)
(***************************************************************************)
\* variant: the registry is not consulted, every call builds a new shell
VulcanoApp_new_always(instances, heap, app_name) ==
    [instances |-> [n \in (DOMAIN instances) \cup {app_name} |->
                        IF n = app_name THEN Len(heap) + 1 ELSE instances[n]],
     heap |-> Append(heap, NewApp(app_name)),
     ret |-> Len(heap) + 1]

VulcanoApp_new(instances, heap, app_name) ==
    IF app_name \in DOMAIN instances
    THEN [instances |-> instances, heap |-> heap, ret |-> instances[app_name]]
    ELSE [instances |-> [n \in (DOMAIN instances) \cup {app_name} |->
                            IF n = app_name THEN Len(heap) + 1 ELSE instances[n]],
          heap |-> Append(heap, NewApp(app_name)),
          ret |-> Len(heap) + 1]

(***************************************************************************)
(* _VulcanoApp._execute_command on the shell object app:                   *)
(*     self.context["last_result"] = self.manager.run(name, args, kwargs)  *)
(*     if self.print_result and self.context["last_result"]: print(...)    *)
(*     return self.context["last_result"]                                  *)
(* [exc, ret, callret, func, context, stop, printed]                       *)
(***************************************************************************)
\* variant: only a truthy result is stored
StoreIfTruthy(print_result, command_name, r) ==
    [exc |-> r.exc, ret |-> r.ret, callret |-> r.ret, func |-> r.func,
     context |-> IF r.exc = "none" /\ Truthy(r.ret)
                 THEN SetKey(r.context, "last_result", r.ret)
                 ELSE r.context,
     stop |-> r.stop,
     printed |-> IF r.exc = "none" /\ print_result /\ Truthy(r.ret)
                 THEN <<Msg("result", command_name, Str(r.ret))>>
                 ELSE <<>>]

\* variant: the result slot is written whether or not the command succeeded
StoreBeforeRun(print_result, command_name, r) ==
    [exc |-> r.exc, ret |-> r.ret, callret |-> r.ret, func |-> r.func,
     context |-> SetKey(r.context, "last_result", r.ret),
     stop |-> r.stop,
     printed |-> IF r.exc = "none" /\ print_result /\ Truthy(r.ret)
                 THEN <<Msg("result", command_name, Str(r.ret))>>
                 ELSE <<>>]

\* variant: a failed run leaves None in the result slot
StoreNoneOnFailure(print_result, command_name, r) ==
    [exc |-> r.exc, ret |-> IF r.exc = "none" THEN r.ret ELSE Nothing,
     callret |-> IF r.exc = "none" THEN r.ret ELSE Nothing, func |-> r.func,
     context |-> SetKey(r.context, "last_result",
                        IF r.exc = "none" THEN r.ret ELSE NoneV),
     stop |-> r.stop,
     printed |-> IF r.exc = "none" /\ print_result /\ Truthy(r.ret)
                 THEN <<Msg("result", command_name, Str(r.ret))>>
                 ELSE <<>>]

\* the assignment, the print and the return, r being what manager.run did
StoreResult(print_result, command_name, r) ==
    IF r.exc # "none"
    THEN [exc |-> r.exc, ret |-> Nothing, callret |-> Nothing, func |-> r.func,
          context |-> r.context, stop |-> r.stop, printed |-> <<>>]
    ELSE [exc |-> "none",
          ret |-> SetKey(r.context, "last_result", r.ret)["last_result"],
          callret |-> r.ret, func |-> r.func,
          context |-> SetKey(r.context, "last_result", r.ret),
          stop |-> r.stop,
          printed |-> IF print_result /\ Truthy(r.ret)
                      THEN <<Msg("result", command_name, Str(r.ret))>>
                      ELSE <<>>]

_execute_command(app, command_name, args, kwargs) ==
    StoreResult(app.print_result, command_name,
                manager_run(app.manager, command_name, args, kwargs, app.context))

(***************************************************************************)
(* The body both run modes share for one command: interpolate the          *)
(* argument text, parse it, dispatch.  stage names the call that raised.   *)
(***************************************************************************)
\* the parser raised: nothing was dispatched
NotParsed(app, command_name, arguments, text, exc) ==
    [name |-> command_name, raw |-> arguments, text |-> text, before |-> app.context,
     parsed |-> FALSE, dispatched |-> FALSE, stage |-> "parse", exc |-> exc,
     ret |-> Nothing, callret |-> Nothing, func |-> "none", context |-> app.context,
     stop |-> FALSE, printed |-> <<>>, args |-> <<>>, kwargs |-> <<>>]

\* the parser returned p and _execute_command did e
Dispatched(app, command_name, arguments, text, p, e) ==
    [name |-> command_name, raw |-> arguments, text |-> text, before |-> app.context,
     parsed |-> TRUE, dispatched |-> TRUE,
     stage |-> IF e.exc = "none" THEN "none" ELSE "dispatch",
     exc |-> e.exc, ret |-> e.ret, callret |-> e.callret, func |-> e.func,
     context |-> e.context, stop |-> e.stop, printed |-> e.printed,
     args |-> p.args, kwargs |-> p.kwargs]

ParseThenExecute(app, command_name, arguments, text, p) ==
    IF p.exc # "none"
    THEN NotParsed(app, command_name, arguments, text, p.exc)
    ELSE Dispatched(app, command_name, arguments, text, p,
                    _execute_command(app, command_name, p.args, p.kwargs))

InterpolateThenParse(app, command_name, arguments, text) ==
    ParseThenExecute(app, command_name, arguments, text, inline_parser(text))

ParseAndExecute(app, command_name, arguments) ==
    InterpolateThenParse(app, command_name, arguments,
                         Interpolate(arguments, app.context))

(***************************************************************************)
(* Which exceptions each mode handles.  _exec_from_args wraps only the     *)
(* dispatch in   try ... except CommandNotFound ; _exec_from_repl wraps    *)
(* parsing and dispatch in  try ... except CommandNotFound ... except      *)
(* Exception.                                                              *)
(***************************************************************************)
\* variant: the batch loop handles nothing
args_catches_nothing(stage, exc) ==
    FALSE

\* variant: the batch loop handles every exception of the dispatch
args_catches_dispatch(stage, exc) ==
    stage = "dispatch"

\* variant: the batch loop wraps the parsing too, and handles its error
args_catches_parse(stage, exc) ==
    exc \in {"CommandNotFound", "ParseError"}

_exec_from_args_catches(stage, exc) ==
    stage = "dispatch" /\ exc = "CommandNotFound"

\* variant: the interactive loop handles CommandNotFound alone
repl_catches_not_found(stage, exc) ==
    exc = "CommandNotFound"

\* variant: the interactive loop wraps the dispatch alone
repl_catches_dispatch(stage, exc) ==
    stage = "dispatch"

_exec_from_repl_catches(stage, exc) ==
    stage \in {"parse", "dispatch"}

\* if possible_command: print('Did you mean: ...')
Suggest(command_name, possible_command) ==
    IF Truthy(possible_command)
    THEN <<Msg("did_you_mean", command_name, possible_command.s)>>
    ELSE <<>>

\* what the handler that caught exc prints
Report(app, command_name, exc) ==
    IF exc = "CommandNotFound"
    THEN <<Msg("not_found", command_name, "")>>
            \o (IF app.suggestions = "did_you_mean"
                THEN Suggest(command_name,
                             did_you_mean(command_name, command_names(app.manager)))
                ELSE <<>>)
    ELSE <<Msg("error", command_name, exc)>>

(***************************************************************************)
(* The except clauses of both loops, o being what the command did: a       *)
(* caught exception is reported, and nothing else is done about it.        *)
(***************************************************************************)
\* variant: an unknown name is reported and the suggested command is run in
\* its place, with the arguments typed
RunSuggested(app, o, possible_command) ==
    IF Truthy(possible_command)
    THEN [report |-> Report(app, o.name, o.exc), exc |-> o.exc, stage |-> o.stage]
            @@ _execute_command(app, possible_command.s, o.args, o.kwargs) @@ o
    ELSE o @@ [report |-> Report(app, o.name, o.exc)]

HandledRunsSuggestion(app, o, caught) ==
    IF caught /\ o.exc = "CommandNotFound" /\ app.suggestions = "did_you_mean"
    THEN RunSuggested(app, o, did_you_mean(o.name, command_names(app.manager)))
    ELSE o @@ [report |-> IF caught THEN Report(app, o.name, o.exc) ELSE <<>>]

Handled(app, o, caught) ==
    o @@ [report |-> IF caught THEN Report(app, o.name, o.exc) ELSE <<>>]

(***************************************************************************)
(* Inputs: the application names, the registrations of the host program in *)
(* the order its module makes them, the process command lines and the      *)
(* lines typed at the prompt.                                              *)
(***************************************************************************)
AppNames == {"vulcano_default", "tools"}

\* names did_you_mean is called with, and the lists of known names
KnownNames == {"hi", "ih", "whoami", "echo", "exit", "help", "nope", "ehit", "zz"}

RECURSIVE NameLists(_)
NameLists(n) ==
    IF n = 0
    THEN {<<>>}
    ELSE NameLists(n - 1)
            \cup {Append(k, c) : k \in NameLists(n - 1), c \in KnownNames}

\* run(suggestions=...): the default heuristic, or None to have none
Suggestions == {"did_you_mean", "None"}

HostProgram ==
    << [name |-> "hi", func |-> "salute_method_here"],
       [name |-> "i_am", func |-> "i_am"],
       [name |-> "whoami", func |-> "whoami"],
       [name |-> "echo", func |-> "echo"],
       [name |-> "bye", func |-> "bye"] >>

\* a host program that registers commands of its own as help and exit
OwnHelpAndExit ==
    << [name |-> "help", func |-> "my_help"],
       [name |-> "exit", func |-> "my_exit"] >>

HostPrograms == {HostProgram, OwnHelpAndExit}

CommandLines ==
    { <<Word("hi")>>,
      <<Word("hi"), Word("Sam")>>,
      <<Word("hi"), Kw("name", "Bob")>>,
      <<Word("hi"), Ref("name")>>,
      <<Word("hi"), Ref("other")>>,
      <<Word("hi"), Ref("name"), Ref("other")>>,
      <<Word("hi"), BadQuote>>,
      <<Word("hi"), Ref("other"), BadQuote>>,
      <<Word("i_am"), Word("Sam")>>,
      <<Word("i_am"), Kw("name", "Bob")>>,
      <<Word("echo"), Word("Sam")>>,
      <<Word("echo"), Ref("name")>>,
      <<Word("echo"), KwRef("value", "name")>>,
      <<Word("echo"), Ref("last_result")>>,
      <<Word("whoami")>>,
      <<Word("exit")>>,
      <<Word("help")>>,
      <<Word("nope")>>,
      <<Word("nope"), Ref("other")>>,
      <<Word("nope"), BadQuote>> }

\* lines typed at the prompt: commands, the empty line, whitespace, and
\* lines that hold the word "and"
Lines ==
    CommandLines \cup {<<>>, <<Blank>>, <<Blank, Word("echo"), Blank, Ref("name"), Blank>>,
                       <<Word("hi"), Word("and"), Word("whoami")>>,
                       <<Word("i_am"), Word("Sam"), Word("and"), Word("whoami")>>}

PromptInputs ==
    {[kind |-> "eof", line |-> <<>>], [kind |-> "interrupt", line |-> <<>>]}
        \cup {[kind |-> "line", line |-> l] : l \in Lines}

\* the chained commands of a process command line
BatchCommands ==
    { <<Word("i_am"), Word("Sam")>>,
      <<Word("echo"), Ref("name")>>,
      <<Word("echo"), Ref("last_result")>>,
      <<Word("echo"), Ref("name"), Ref("other")>>,
      <<Word("hi")>>,
      <<Word("hi"), Kw("name", "Bob")>>,
      <<Word("hi"), BadQuote>>,
      <<Word("bye")>>,
      <<Word("nope"), Ref("other")>> }

RECURSIVE Chains(_)
Chains(n) ==
    IF n = 0
    THEN {<<>>}
    ELSE LET shorter == Chains(n - 1)
         IN  shorter \cup {c \o <<Word("and")>> \o b : c \in shorter \ {<<>>}, b \in BatchCommands}
                     \cup BatchCommands

\* sys.argv: the program name, then nothing (interactive) or a chain
Argvs == {<<Word("example.py")>> \o c : c \in Chains(MaxChain)}

VARIABLES
    instances,   \* VulcanoApp.__instances__: application name -> object id
    heap,        \* the _VulcanoApp objects, by object id
    sys_argv,    \* sys.argv of the process
    pc,          \* "host", "batch", "repl", "returned" or "raised"
    running,     \* the object whose run() is active, 0 when none
    commands,    \* _exec_from_args: the chained commands
    idx,         \* _exec_from_args: the position of the for loop
    prompts,     \* reads at the prompt so far
    raised,      \* the exception that left run(), "none" otherwise
    dispatches,  \* _exec_from_args: the calls of _execute_command so far
    last         \* what the last step did

vars == <<instances, heap, sys_argv, pc, running, commands, idx, prompts, raised,
          dispatches, last>>

\* _VulcanoApp.request_is_for_args
request_is_for_args == Len(sys_argv) >= 2

\* rq_is_for_repl(app)()
rq_is_for_repl == ~request_is_for_args

\* show_if(): the visibility predicate of a registered command, called
Visible(entry) ==
    IF entry.show_if = "rq_is_for_repl" THEN rq_is_for_repl ELSE TRUE

Init ==
    /\ instances = <<>>
    /\ heap = <<>>
    /\ sys_argv \in Argvs
    /\ pc = "host"
    /\ running = 0
    /\ commands = <<>>
    /\ idx = 0
    /\ prompts = 0
    /\ raised = "none"
    /\ dispatches = <<>>
    /\ last = [op |-> "init"]

(***************************************************************************)
(* The host program: VulcanoApp(name), @app.command(...), app.run(...).    *)
(***************************************************************************)
New(app_name) ==
    /\ pc \in {"host", "returned"}
    /\ Len(heap) < MaxHeap
    /\ LET r == VulcanoApp_new(instances, heap, app_name)
           known == app_name \in DOMAIN instances
       IN  /\ instances' = r.instances
           /\ heap' = r.heap
           /\ last' = [op |-> "new", app_name |-> app_name, ret |-> r.ret,
                       known |-> known,
                       was |-> IF known THEN instances[app_name] ELSE 0,
                       obj |-> IF known THEN heap[instances[app_name]]
                               ELSE NewApp(app_name)]
    /\ UNCHANGED <<sys_argv, pc, running, commands, idx, prompts, raised, dispatches>>

RECURSIVE RegisterAll(_, _)
RegisterAll(manager, cs) ==
    IF cs = <<>>
    THEN manager
    ELSE RegisterAll(register_command(manager, Head(cs).func, Head(cs).name, "always"),
                     Tail(cs))

\* the @app.command(...) registrations of the host module, top to bottom
RegisterCommands(app_name, program) ==
    /\ pc = "host"
    /\ app_name \in DOMAIN instances
    /\ LET id == instances[app_name]
       IN  /\ heap[id].manager = <<>>
           /\ heap' = [heap EXCEPT ![id].manager = RegisterAll(@, program)]
           /\ last' = [op |-> "register", id |-> id]
    /\ UNCHANGED <<instances, sys_argv, pc, running, commands, idx, prompts, raised,
                   dispatches>>

\* variant: a name the host program has taken is left to it
prepare_unless_taken(manager) ==
    IF Lookup(manager, "exit").func # "none" \/ Lookup(manager, "help").func # "none"
    THEN manager
    ELSE register_command(
             register_command(manager, "exit", "exit", "rq_is_for_repl"),
             "help", "help", "always")

\* variant: exit is not registered
prepare_help_only(manager) ==
    register_command(manager, "help", "help", "always")

\* _prepare_builtins
_prepare_builtins(manager) ==
    register_command(
        register_command(manager, "exit", "exit", "rq_is_for_repl"),
        "help", "help", "always")

\* app.run(print_result=..., suggestions=...), up to the first command or prompt
Run(app_name, print_result, suggestions) ==
    /\ pc = "host"
    /\ app_name \in DOMAIN instances
    /\ LET id == instances[app_name]
           prepared == [heap[id] EXCEPT !.suggestions = suggestions,
                                        !.print_result = print_result,
                                        !.manager = _prepare_builtins(@)]
       IN  IF request_is_for_args
           THEN /\ heap' = [heap EXCEPT ![id] = prepared]
                /\ commands' = split_list_by_arg(Tail(sys_argv), Word("and"))
                /\ idx' = 1
                /\ pc' = IF commands' = <<>> THEN "returned" ELSE "batch"
                /\ running' = IF commands' = <<>> THEN 0 ELSE id
           ELSE /\ heap' = [heap EXCEPT ![id] = [prepared EXCEPT !.do_repl = "True"]]
                /\ pc' = "repl"
                /\ running' = id
                /\ UNCHANGED <<commands, idx>>
    /\ last' = [op |-> "run", app_name |-> app_name]
    /\ UNCHANGED <<instances, sys_argv, prompts, raised, dispatches>>

(***************************************************************************)
(* _exec_from_args: one iteration of  for command in commands.             *)
(***************************************************************************)
\* the iteration's effect, o being what the command did
ArgsIteration(o, caught) ==
    /\ heap' = [heap EXCEPT ![running].context = o.context,
                            ![running].do_repl = IF o.stop THEN "False" ELSE @]
    /\ last' = o @@ [op |-> "batch", id |-> running, idx |-> idx, caught |-> caught,
                     escapes |-> (o.exc # "none" /\ ~caught),
                     out |-> o.printed \o o.report]
    /\ dispatches' = IF o.dispatched
                     THEN Append(dispatches, [idx |-> idx, name |-> o.name,
                                              before |-> o.before, after |-> o.context])
                     ELSE dispatches
    /\ IF o.exc # "none" /\ ~caught
       THEN /\ pc' = "raised"
            /\ raised' = o.exc
            /\ UNCHANGED idx
       ELSE /\ idx' = idx + 1
            /\ pc' = IF idx' > Len(commands) THEN "returned" ELSE "batch"
            /\ UNCHANGED raised

ArgsHandle(o) ==
    ArgsIteration(Handled(heap[running], o,
                          o.exc # "none" /\ _exec_from_args_catches(o.stage, o.exc)),
                  o.exc # "none" /\ _exec_from_args_catches(o.stage, o.exc))

\* variant: the chain is taken from its right end
for_command_reversed(cmds, i) == cmds[Len(cmds) + 1 - i]

\* for command in commands: the command of the i-th iteration
for_command(cmds, i) == cmds[i]

ExecFromArgs ==
    /\ pc = "batch"
    /\ idx <= Len(commands)
    /\ ArgsHandle(ParseAndExecute(heap[running],
                                  StrSplit(for_command(commands, idx))[1].val,
                                  Tail(StrSplit(for_command(commands, idx)))))
    /\ running' = IF pc' = "batch" THEN running ELSE 0
    /\ UNCHANGED <<instances, sys_argv, commands, prompts>>

(***************************************************************************)
(* _exec_from_repl: one pass of  while self.do_repl , from the read at the *)
(* prompt to the next test of do_repl.                                     *)
(***************************************************************************)
\* variant: the loop does not test the flag
while_forever(do_repl) == TRUE

\* while self.do_repl
while_do_repl(do_repl) == do_repl = "True"

\* variant: the line is cut at the first "and", as the process arguments are
command_list_chained(user_input) ==
    IF split_list_by_arg(StrSplit(user_input), Word("and")) = <<>>
    THEN <<>>
    ELSE split_list_by_arg(StrSplit(user_input), Word("and"))[1]

\* command_list = user_input.split(): the whole line is one command
command_list(user_input) == StrSplit(user_input)

\* continue or break without a command: nothing is dispatched
ReplNoCommand(input, next_pc) ==
    /\ pc' = next_pc
    /\ last' = [op |-> "repl", id |-> running, input |-> input, dispatched |-> FALSE,
                before |-> heap[running].context, escapes |-> FALSE,
                exc |-> "none", out |-> <<>>]
    /\ UNCHANGED <<heap, raised>>

\* the pass's effect, o being what the command did
ReplIteration(input, o, caught, do_repl) ==
    /\ heap' = [heap EXCEPT ![running].context = o.context,
                            ![running].do_repl = do_repl]
    /\ last' = o @@ [op |-> "repl", id |-> running, input |-> input, caught |-> caught,
                     escapes |-> (o.exc # "none" /\ ~caught),
                     out |-> o.printed \o o.report]
    /\ IF o.exc # "none" /\ ~caught
       THEN /\ pc' = "raised"
            /\ raised' = o.exc
       ELSE /\ pc' = IF while_do_repl(do_repl) THEN "repl" ELSE "returned"
            /\ UNCHANGED raised

ReplHandle(input, o) ==
    ReplIteration(input,
                  Handled(heap[running], o,
                          o.exc # "none" /\ _exec_from_repl_catches(o.stage, o.exc)),
                  o.exc # "none" /\ _exec_from_repl_catches(o.stage, o.exc),
                  IF o.stop THEN "False" ELSE heap[running].do_repl)

ExecFromRepl(input) ==
    /\ pc = "repl"
    /\ prompts < MaxPrompts
    /\ prompts' = prompts + 1
    /\ CASE input.kind = "interrupt" ->
               \* except KeyboardInterrupt: continue
               ReplNoCommand(input, IF while_do_repl(heap[running].do_repl)
                                    THEN "repl" ELSE "returned")
         [] input.kind = "eof" ->
               \* except EOFError: break
               ReplNoCommand(input, "returned")
         [] input.kind = "line" /\ command_list(input.line) = <<>> ->
               \* if not command_list: continue
               ReplNoCommand(input, IF while_do_repl(heap[running].do_repl)
                                    THEN "repl" ELSE "returned")
         [] OTHER ->
               ReplHandle(input, ParseAndExecute(heap[running],
                                                 command_list(input.line)[1].val,
                                                 Tail(command_list(input.line))))
    /\ running' = IF pc' = "repl" THEN running ELSE 0
    /\ UNCHANGED <<instances, sys_argv, commands, idx, dispatches>>

Next ==
    \/ \E a \in AppNames : New(a)
    \/ \E a \in AppNames, program \in HostPrograms : RegisterCommands(a, program)
    \/ \E a \in AppNames, pr \in BOOLEAN, sg \in Suggestions : Run(a, pr, sg)
    \/ ExecFromArgs
    \/ \E input \in PromptInputs : ExecFromRepl(input)

Spec == Init /\ [][Next]_vars

(***************************************************************************)
(* did_you_mean on its own: a call with any name and any list of known     *)
(* names, as a host program or a test may make it.                         *)
(***************************************************************************)
SuggestInit ==
    /\ instances = <<>>
    /\ heap = <<>>
    /\ sys_argv = <<Word("example.py")>>
    /\ pc = "host"
    /\ running = 0
    /\ commands = <<>>
    /\ idx = 0
    /\ prompts = 0
    /\ raised = "none"
    /\ dispatches = <<>>
    /\ last \in {[op |-> "call", command |-> c, possible_commands |-> k] :
                    c \in KnownNames, k \in NameLists(MaxKnown)}

DidYouMean ==
    /\ last.op = "call"
    /\ last' = [op |-> "did_you_mean", command |-> last.command,
                possible_commands |-> last.possible_commands,
                ret |-> did_you_mean(last.command, last.possible_commands)]
    /\ UNCHANGED <<instances, heap, sys_argv, pc, running, commands, idx, prompts,
                   raised, dispatches>>

SuggestNext == DidYouMean

SuggestSpec == SuggestInit /\ [][SuggestNext]_vars

TypeOK ==
    /\ pc \in {"host", "batch", "repl", "returned", "raised"}
    /\ DOMAIN instances \subseteq AppNames
    /\ \A a \in DOMAIN instances : instances[a] \in DOMAIN heap
    /\ running \in {0} \cup DOMAIN heap
    /\ (pc \in {"batch", "repl"}) = (running # 0)

(***************************************************************************)
(* Properties.  last describes the step just taken: for a command of       *)
(* either mode, its name, the argument text as typed (raw), the text the   *)
(* parser was given (text), the context before the step (before), the      *)
(* exception, if any, and whether it left run() (escapes).                 *)
(***************************************************************************)
\* the last step handled a command (it got past the prompt and the empty line)
CommandStep == last.op \in {"batch", "repl"} /\ "raw" \in DOMAIN last

\* the last step printed a message of this kind about its command
Reported(kind) ==
    \E i \in DOMAIN last.out : last.out[i].msg = kind /\ last.out[i].name = last.name

\* C1: in interactive mode a line whose handling raises CommandNotFound or any
\* other exception (lookup, argument parsing, command body) is reported with
\* the command name and the loop is back at the prompt; nothing leaves run().
C1_ReplSurvivesErrors ==
    (last.op = "repl" /\ last.exc # "none") =>
        /\ pc = "repl"
        /\ running = last.id
        /\ raised = "none"
        /\ ~last.escapes
        /\ Reported(IF last.exc = "CommandNotFound" THEN "not_found" ELSE "error")
        /\ (last.exc # "CommandNotFound" =>
               \E i \in DOMAIN last.out : last.out[i].text = last.exc)

\* a command body raised at the prompt and the loop is still running
C1_Witness ==
    /\ last.op = "repl"
    /\ last.exc = "KeyError"
    /\ last.func = "whoami"
    /\ pc = "repl"

\* C2: in batch mode a chained command whose name is not registered is
\* reported as not found and the loop moves on to the next command of the
\* chain, which is then taken; after the last command run() returns normally.
C2_BatchContinuesAfterNotFound ==
    (last.op = "batch" /\ last.exc = "CommandNotFound") =>
        /\ Reported("not_found")
        /\ ~last.escapes
        /\ raised = "none"
        /\ idx = last.idx + 1
        /\ IF last.idx < Len(commands)
           THEN pc = "batch" /\ running = last.id /\ idx <= Len(commands)
           ELSE pc = "returned"

\* a registered command ran after an unregistered one of the same chain
C2_Witness ==
    /\ last.op = "batch"
    /\ last.idx = 2
    /\ last.func # "none"
    /\ last.exc = "none"
    /\ Lookup(heap[last.id].manager, StrSplit(commands[1])[1].val).func = "none"

\* C3: in batch mode an exception other than CommandNotFound raised by the
\* body of a chained command leaves run() and no later command of the chain
\* is dispatched; at the prompt the same exception is caught and the loop
\* continues.
C3_BatchBodyErrorAborts ==
    /\ (last.op = "batch" /\ last.func # "none" /\ last.exc # "none") =>
           /\ pc = "raised"
           /\ raised = last.exc
           /\ last.out = <<>>
           /\ idx = last.idx
           /\ running = 0
    /\ (pc = "raised" => running = 0 /\ ~ENABLED Next)
    /\ (CommandStep /\ last.op = "repl" /\ last.func # "none" /\ last.exc # "none") =>
           pc = "repl" /\ raised = "none"

\* a command body raised in batch mode with a chained command still to come
C3_Witness ==
    /\ last.op = "batch"
    /\ last.func = "salute_method_here"
    /\ last.exc = "TypeError"
    /\ pc = "raised"
    /\ last.idx < Len(commands)

\* the context of the shell the last step ran on, as it is now
ContextNow == heap[last.id].context

\* C4 as stated: a ParseError of the argument parser leaves run() uncaught in
\* both modes.
C4_ParseErrorEscapesInBothModes ==
    (CommandStep /\ last.exc = "ParseError") =>
        /\ pc = "raised"
        /\ raised = "ParseError"

\* C4 as amended: in batch mode a ParseError of the argument parser leaves run()
\* uncaught, with nothing printed and no later command taken; in interactive
\* mode it is caught at the loop boundary, reported as an error of that
\* command, and the loop is back at the prompt.  In neither mode is the
\* command dispatched.
C4_ParseErrorBatchEscapesReplReports ==
    (CommandStep /\ last.exc = "ParseError") =>
        /\ ~last.dispatched
        /\ last.func = "none"
        /\ ContextNow = last.before
        /\ IF last.op = "batch"
           THEN /\ pc = "raised"
                /\ raised = "ParseError"
                /\ last.out = <<>>
                /\ idx = last.idx
           ELSE /\ pc = "repl"
                /\ raised = "none"
                /\ last.out = <<Msg("error", last.name, "ParseError")>>

\* malformed quoting ended a batch with a chained command still to come
C4_Witness ==
    /\ last.op = "batch"
    /\ last.exc = "ParseError"
    /\ pc = "raised"
    /\ last.idx < Len(commands)

\* C5: at the prompt, end of input ends the loop without an exception, an
\* interrupt and an empty or whitespace-only line lead back to the prompt; in
\* all three cases nothing is dispatched, nothing printed, the context stays.
C5_PromptSignalsAndEmptyLines ==
    (last.op = "repl" /\ (last.input.kind \in {"eof", "interrupt"}
                            \/ \A i \in DOMAIN last.input.line :
                                  last.input.line[i].kind = "blank")) =>
        /\ ~last.dispatched
        /\ ~("func" \in DOMAIN last)
        /\ ContextNow = last.before
        /\ heap[last.id].do_repl = "True"
        /\ last.out = <<>>
        /\ raised = "none"
        /\ IF last.input.kind = "eof"
           THEN pc = "returned" /\ running = 0
           ELSE pc = "repl" /\ running = last.id

\* a whitespace-only line was read with a context that commands had filled
C5_Witness ==
    /\ last.op = "repl"
    /\ last.input = [kind |-> "line", line |-> <<Blank>>]
    /\ "name" \in DOMAIN ContextNow
    /\ pc = "repl"

\* C6: however often and in whatever order VulcanoApp(name) is called, a name
\* has exactly one shell object, the one its first call built; a later call
\* returns that object with registry and context as they were, and different
\* names have different objects.
C6_OneInstancePerName ==
    /\ \A a \in DOMAIN instances :
           {i \in DOMAIN heap : heap[i].app_name = a} = {instances[a]}
    /\ \A a, b \in DOMAIN instances : a # b => instances[a] # instances[b]
    /\ (last.op = "new") =>
           /\ instances[last.app_name] = last.ret
           /\ heap[last.ret] = last.obj
           /\ (last.known => last.ret = last.was)

\* a second construction returned a shell whose registry and context were filled
C6_Witness ==
    /\ last.op = "new"
    /\ last.known
    /\ Cardinality(DOMAIN instances) = 2
    /\ Len(heap[last.ret].manager) > 2
    /\ "name" \in DOMAIN heap[last.ret].context

\* the fragment the interpolation makes of fragment t against the context ctx
Rendered(t, ctx) ==
    CASE t.kind = "ref" -> Word(Str(ctx[t.key]))
      [] t.kind = "kwref" -> Kw(t.key, Str(ctx[t.val]))
      [] OTHER -> t

\* fragment t names the context key k as a format field
Names(t, k) ==
    (t.kind = "ref" /\ t.key = k) \/ (t.kind = "kwref" /\ t.val = k)

\* C7 as stated: whenever the argument text of a command names a key that is
\* in the context, the text the parser is given has the key's current value
\* in the field's place.
C7_EveryKnownFieldInterpolated ==
    CommandStep =>
        \A k \in DOMAIN last.before : \A i \in DOMAIN last.raw :
            Names(last.raw[i], k) => last.text[i] = Rendered(last.raw[i], last.before)

\* C7 as amended: when every key the argument text names is in the context,
\* the text given to the parser is the typed text with each field replaced by
\* the current value of its key, and the arguments the command is dispatched
\* with are parsed from that text.
C7_FieldsInterpolatedWhenAllKnown ==
    (CommandStep /\ FieldKeys(last.raw) \subseteq DOMAIN last.before) =>
        /\ DOMAIN last.text = DOMAIN last.raw
        /\ \A i \in DOMAIN last.raw : last.text[i] = Rendered(last.raw[i], last.before)
        /\ last.parsed = WellQuoted(last.raw)
        /\ last.parsed =>
              /\ last.args = PositionalOf(last.text)
              /\ last.kwargs = KeywordsOf(last.text)

\* the second command of a chain received the name the first one had stored
C7_Witness ==
    /\ last.op = "batch"
    /\ last.idx = 2
    /\ last.raw = <<Ref("name")>>
    /\ last.func = "echo"
    /\ last.callret = StrV("Sam")

C9_LastResultIsTheReturnedValue ==
    (CommandStep /\ last.dispatched /\ last.exc = "none") =>
        /\ last.func = Lookup(heap[last.id].manager, last.name).func
        /\ last.func # "none"
        /\ "last_result" \in DOMAIN ContextNow
        /\ ContextNow["last_result"]
              = Call(last.func, last.args, last.kwargs, last.before).ret
        /\ last.ret = Call(last.func, last.args, last.kwargs, last.before).ret

\* a dispatch that returned None replaced an earlier result that was a string
C9_Witness ==
    /\ CommandStep
    /\ last.exc = "none"
    /\ "last_result" \in DOMAIN last.before
    /\ last.before["last_result"] = StrV("Sam")
    /\ last.ret = NoneV
    /\ ContextNow["last_result"] = NoneV

\* C10 as stated: every shell's context holds last_result in every state.
C10_ContextAlwaysHoldsLastResult ==
    \A id \in DOMAIN heap : "last_result" \in DOMAIN heap[id].context

\* the last step of the next state was a successful dispatch on shell id
SucceededOn(id) ==
    /\ last'.op \in {"batch", "repl"}
    /\ "raw" \in DOMAIN last'
    /\ last'.id = id
    /\ last'.exc = "none"

\* C10 as amended: a shell's context is empty when the shell is built; it
\* comes to hold last_result exactly by a successful dispatch on that shell,
\* and from then on holds it in every state.
C10_LastResultFromFirstSuccessOn ==
    [][ /\ \A id \in DOMAIN heap' \ DOMAIN heap : heap'[id].context = <<>>
        /\ \A id \in DOMAIN heap :
              /\ id \in DOMAIN heap'
              /\ "last_result" \in DOMAIN heap[id].context
                    => "last_result" \in DOMAIN heap'[id].context
              /\ SucceededOn(id) => "last_result" \in DOMAIN heap'[id].context
              /\ ("last_result" \notin DOMAIN heap[id].context
                    /\ "last_result" \in DOMAIN heap'[id].context) => SucceededOn(id)
      ]_vars

\* a failed dispatch left a context that held last_result
C10_Witness ==
    /\ CommandStep
    /\ last.exc # "none"
    /\ "last_result" \in DOMAIN ContextNow

(***************************************************************************)
(* C11: did_you_mean(name, known) returns the element of known with the    *)
(* highest similarity ratio to name, the first of them in iteration order  *)
(* when several share it, and no suggestion when known is empty or every   *)
(* ratio is zero.                                                          *)
(***************************************************************************)
RatioAt(i) == Ratio(last.command, last.possible_commands[i])

\* the positions of the known names no other known name beats
Highest ==
    {i \in DOMAIN last.possible_commands :
        \A j \in DOMAIN last.possible_commands : ~Greater(RatioAt(j), RatioAt(i))}

C11_FirstOfTheHighestRatio ==
    last.op = "did_you_mean" =>
        IF Highest = {} \/ \A i \in Highest : RatioAt(i).num = 0
        THEN last.ret = NoneV
        ELSE last.ret =
                StrV(last.possible_commands[CHOOSE i \in Highest :
                                                \A j \in Highest : i <= j])

\* two different known names share the highest ratio, which is not zero,
\* and the first of them came back
C11_Witness ==
    /\ last.op = "did_you_mean"
    /\ \E i, j \in Highest :
          /\ i < j
          /\ \A h \in Highest : i <= h
          /\ last.possible_commands[i] # last.possible_commands[j]
          /\ RatioAt(i).den # RatioAt(j).den
          /\ RatioAt(i).num > 0
          /\ last.ret = StrV(last.possible_commands[i])

(***************************************************************************)
(* C12: the suggestion is advisory.  When a command name is not found, in  *)
(* either mode, no registered callable is invoked for that input, the      *)
(* suggested one included: nothing is called, the context and do_repl stay *)
(* as they were, and all the shell prints is the not-found message and, at *)
(* most, the suggestion.                                                   *)
(***************************************************************************)
C12_SuggestionIsNeverRun ==
    (CommandStep /\ last.exc = "CommandNotFound") =>
        /\ last.func = "none"
        /\ last.callret = Nothing
        /\ ContextNow = last.before
        /\ ~last.stop
        /\ \A i \in DOMAIN last.out : last.out[i].msg \in {"not_found", "did_you_mean"}
        /\ Lookup(heap[last.id].manager, last.name).func = "none"

\* a name that is not found, and the suggestion printed is a registered command
C12_Witness ==
    /\ CommandStep
    /\ last.op = "batch"
    /\ last.exc = "CommandNotFound"
    /\ \E i \in DOMAIN last.out :
          /\ last.out[i].msg = "did_you_mean"
          /\ Lookup(heap[last.id].manager, last.out[i].text).func = "bye"

(***************************************************************************)
(* C13, as stated: every raw input, the process arguments and each line    *)
(* typed at the prompt alike, is first split on "and" and only then is     *)
(* each command string parsed, so no command reaches the parser with the   *)
(* word "and" among its fragments.                                         *)
(***************************************************************************)
C13_EveryInputSplitOnAnd ==
    CommandStep =>
        /\ last.name # "and"
        /\ \A i \in DOMAIN last.raw : last.raw[i] # Word("and")

(***************************************************************************)
(* C13, amended: the process arguments are split on "and" before any       *)
(* command is parsed, and each command handled in batch mode is one piece  *)
(* of that split; a line typed at the prompt is not split: the whole line  *)
(* is one command, and a word "and" on it is handed to the parser (and,    *)
(* when the call is made, to the callable) like any other fragment.        *)
(***************************************************************************)
C13_ArgumentsSplitLinesNot ==
    CommandStep =>
        IF last.op = "batch"
        THEN /\ commands = split_list_by_arg(Tail(sys_argv), Word("and"))
             /\ last.idx \in DOMAIN commands
             /\ <<Word(last.name)>> \o last.raw = commands[last.idx]
             /\ \A i \in DOMAIN last.raw : last.raw[i] # Word("and")
        ELSE /\ <<Word(last.name)>> \o last.raw
                    = SelectSeq(last.input.line, LAMBDA t : t # Blank)
             /\ (last.parsed /\ last.raw = last.text) =>
                    \A i \in DOMAIN last.raw :
                        last.raw[i] = Word("and") =>
                            \E j \in DOMAIN last.args : last.args[j] = StrV("and")

\* a line with "and" typed at the prompt: one call, of the first command,
\* with "and" and what follows it as arguments
C13_Witness ==
    /\ CommandStep
    /\ last.op = "repl"
    /\ last.input.line = <<Word("hi"), Word("and"), Word("whoami")>>
    /\ last.func = "salute_method_here"
    /\ last.args = <<StrV("and"), StrV("whoami")>>
    /\ last.exc = "none"

(***************************************************************************)
(* C14: run() registers exit and help before it dispatches anything, in    *)
(* both modes: while run() is active, and at every command it handles,     *)
(* the registry resolves both names to the built-ins; and the visibility   *)
(* predicate of exit is true in interactive mode and false in batch mode.  *)
(***************************************************************************)
BuiltinsRegistered(manager) ==
    /\ Lookup(manager, "exit").func = "exit"
    /\ Lookup(manager, "exit").show_if = "rq_is_for_repl"
    /\ Lookup(manager, "help").func = "help"

C14_BuiltinsBeforeAnyDispatch ==
    /\ running # 0 => BuiltinsRegistered(heap[running].manager)
    /\ CommandStep =>
          /\ BuiltinsRegistered(heap[last.id].manager)
          /\ (last.dispatched /\ last.name \in {"exit", "help"}) => last.func = last.name
    /\ pc = "repl" => Visible(Lookup(heap[running].manager, "exit"))
    /\ pc = "batch" => ~Visible(Lookup(heap[running].manager, "exit"))
    /\ (CommandStep /\ last.op = "repl") => Visible(Lookup(heap[last.id].manager, "exit"))
    /\ (CommandStep /\ last.op = "batch") =>
          ~Visible(Lookup(heap[last.id].manager, "exit"))

\* the first line typed is exit, the host program registered nothing, and
\* the built-in is called
C14_Witness ==
    /\ CommandStep
    /\ last.op = "repl"
    /\ prompts = 1
    /\ last.name = "exit"
    /\ last.func = "exit"
    /\ heap[last.id].manager = _prepare_builtins(<<>>)

(***************************************************************************)
(* C15: in interactive mode, once the exit command has been dispatched the *)
(* loop terminates cleanly: run() has returned without an exception, and   *)
(* from then on the shell neither prompts for nor dispatches another line. *)
(***************************************************************************)
ExitDispatched ==
    /\ CommandStep
    /\ last.op = "repl"
    /\ last.func = "exit"
    /\ last.exc = "none"

C15_ExitEndsTheLoop ==
    /\ [](ExitDispatched =>
            /\ pc = "returned"
            /\ running = 0
            /\ raised = "none"
            /\ heap[last.id].do_repl = "False")
    /\ [][pc = "returned" =>
            /\ pc' = "returned"
            /\ prompts' = prompts
            /\ last'.op \notin {"repl", "batch"}]_vars

\* exit typed after another command, with prompts to spare
C15_Witness ==
    /\ ExitDispatched
    /\ prompts = 2
    /\ prompts < MaxPrompts
    /\ pc = "returned"

(***************************************************************************)
(* C16: in batch mode the chained commands are dispatched strictly left to *)
(* right, each at most once, and each only after the one before it has     *)
(* finished: the calls of _execute_command made so far are the first       *)
(* chained commands, one call each, in their order, each starting from the *)
(* context the one before it left; `hi name=Bob and bye` yields exactly    *)
(* the two dispatches hi, then bye.                                        *)
(***************************************************************************)
HiThenBye ==
    <<Word("example.py"), Word("hi"), Kw("name", "Bob"), Word("and"), Word("bye")>>

C16_ChainDispatchedInOrder ==
    /\ \A j \in DOMAIN dispatches :
          /\ dispatches[j].idx = j
          /\ j \in DOMAIN commands
          /\ dispatches[j].name = commands[j][1].val
          /\ j > 1 => dispatches[j].before = dispatches[j - 1].after
    /\ pc = "batch" => Len(dispatches) = idx - 1
    /\ (pc = "returned" /\ request_is_for_args) =>
          (last.op # "run" => Len(dispatches) = Len(commands))
    /\ pc = "raised" => Len(dispatches) \in {idx - 1, idx}
    /\ (sys_argv = HiThenBye /\ pc = "returned" /\ last.op = "batch") =>
          /\ Len(dispatches) = 2
          /\ dispatches[1].name = "hi"
          /\ dispatches[2].name = "bye"

\* `hi name=Bob and bye` has run: hi was called, then bye
C16_Witness ==
    /\ sys_argv = HiThenBye
    /\ pc = "returned"
    /\ Len(dispatches) = 2
    /\ dispatches[1].name = "hi"
    /\ dispatches[2].name = "bye"
    /\ last.op = "batch"
    /\ last.func = "bye"
    /\ last.exc = "none"

(***************************************************************************)
(* C17, as stated: batch mode never enters the interactive loop, and       *)
(* run() ends in one of two ways: the last chained command has been        *)
(* dispatched, or an exception has come out of a command's dispatch.       *)
(***************************************************************************)
BatchEnded ==
    /\ Len(sys_argv) >= 2
    /\ pc \in {"returned", "raised"}
    /\ last.op = "batch"

LastResultOf(ctx) ==
    IF "last_result" \in DOMAIN ctx THEN ctx["last_result"] ELSE Nothing

FailedDispatch == CommandStep /\ last.dispatched /\ last.exc # "none"

C18_FailedDispatchKeepsLastResult ==
    /\ [](FailedDispatch =>
            /\ ("last_result" \in DOMAIN ContextNow) = ("last_result" \in DOMAIN last.before)
            /\ LastResultOf(ContextNow) = LastResultOf(last.before))
    /\ [][\A id \in DOMAIN heap :
             \/ /\ ("last_result" \in DOMAIN heap'[id].context)
                      = ("last_result" \in DOMAIN heap[id].context)
                /\ LastResultOf(heap'[id].context) = LastResultOf(heap[id].context)
             \/ /\ last'.op \in {"batch", "repl"}
                /\ last'.id = id
                /\ last'.dispatched
                /\ last'.exc = "none"
                /\ last'.func # "none"
                /\ "last_result" \in DOMAIN heap'[id].context
                /\ heap'[id].context["last_result"] = last'.callret]_vars

\* a call that raised, after a command had left a result: the result is
\* still there
C18_Witness ==
    /\ FailedDispatch
    /\ last.func # "none"
    /\ last.exc \in {"TypeError", "KeyError"}
    /\ LastResultOf(last.before) = StrV("Sam")
    /\ LastResultOf(ContextNow) = StrV("Sam")

(***************************************************************************)
(* C19: a command the host program registered as help or exit before       *)
(* run() is replaced by the built-in: once run() has started, the registry *)
(* of the shell holds exactly one entry for each of the two names, the     *)
(* built-in, and dispatching help or exit calls the built-in, never the    *)
(* callable of the host program.                                           *)
(***************************************************************************)
OneBuiltinEach(manager) ==
    \A n \in {"help", "exit"} :
        /\ Cardinality({i \in DOMAIN manager : manager[i].name = n}) = 1
        /\ \A i \in DOMAIN manager : manager[i].name = n => manager[i].func = n

C19_BuiltinsReplaceHostCommands ==
    /\ running # 0 => OneBuiltinEach(heap[running].manager)
    /\ CommandStep =>
          /\ OneBuiltinEach(heap[last.id].manager)
          /\ (last.dispatched /\ last.name \in {"help", "exit"}) =>
                /\ last.func = last.name
                /\ last.stop = (last.name = "exit" /\ last.exc = "none")
    /\ last.op = "run" =>
          OneBuiltinEach(heap[instances[last.app_name]].manager)

\* the host program registered its own help and exit (help first, so help
\* still comes first in the registry), and exit typed at the prompt called
\* the built-in, which ended the loop
C19_Witness ==
    /\ CommandStep
    /\ last.name = "exit"
    /\ last.func = "exit"
    /\ last.stop
    /\ Len(heap[last.id].manager) = 2
    /\ heap[last.id].manager[1].name = "help"
    /\ pc = "returned"

====
